---- MODULE Spec2Model ----
(***************************************************************************)
(* fetch_data.py: scrape the weather tables of the Yellowstone Club        *)
(* stations from two sources, merge them, and write the JSON files.        *)
(*                                                                         *)
(* Three specifications:                                                   *)
(*   Spec         main(): the station loop and the files it writes         *)
(*   SpecExtract  the two page.evaluate table extractors, on bounded DOMs  *)
(*   SpecMerge    merge_station_data, on records of the data model         *)
(***************************************************************************)
EXTENDS Integers, Sequences, FiniteSets, TLC

VARIABLES
    pc,                 \* position in main() (or in the function under study)
    idx,                \* index of the station of the current loop iteration
    page,               \* the DOM of the one reused browser page: a sequence of tables
    content,            \* the current fetch's page.evaluate: None before the call,
                        \* then the value it returned or the exception it raised
    weather_gov_data,   \* main()'s local: result of fetch_station_data
    mtavalanche_data,   \* main()'s local: result of fetch_mtavalanche_data
    station_data,       \* main()'s local: result of merge_station_data
    all_data,           \* main()'s local dict: site_id -> station record
    files,              \* the data directory: file name -> the value dumped to it
    warned,             \* the current fetch printed the table selector WARNING
    fetched             \* site_id -> what the two fetches of its iteration returned

vars == <<pc, idx, page, content, weather_gov_data, mtavalanche_data,
          station_data, all_data, files, warned, fetched>>

----------------------------------------------------------------------------
(* Python / JavaScript values *)

\* Python's None.
None == [pynone |-> TRUE]

\* A Python str used where a dict is expected (a raw-text data field).
PyStr(s) == [pystr |-> s]

IsStr(v) == DOMAIN v = {"pystr"}

\* An exception leaving a call, in place of the value the call would return.
Raise(e) == [raised |-> e]

IsRaise(v) == DOMAIN v = {"raised"}

\* obj[key] for a str key: None and a str object have no str index (TypeError),
\* a dict without the key raises KeyError.
subscript(obj, key) ==
    IF obj = [pynone |-> TRUE] \/ IsStr(obj) THEN Raise("TypeError")
    ELSE IF key \in DOMAIN obj THEN [value |-> obj[key]]
    ELSE Raise("KeyError")

\* Truth value of a Python object: None is false, a non-empty dict is true.
Truthy(v) == v # None /\ DOMAIN v # {}

\* JavaScript's white space, as String.prototype.trim() sees it.
IsSpace(c) == c \in {" ", "\t", "\n"}

RECURSIVE trimStart(_)
trimStart(s) ==
    IF Len(s) > 0 /\ IsSpace(SubSeq(s, 1, 1))
    THEN trimStart(SubSeq(s, 2, Len(s)))
    ELSE s

RECURSIVE trimEnd(_)
trimEnd(s) ==
    IF Len(s) > 0 /\ IsSpace(SubSeq(s, Len(s), Len(s)))
    THEN trimEnd(SubSeq(s, 1, Len(s) - 1))
    ELSE s

\* cell.textContent.trim()
trim(s) == trimEnd(trimStart(s))

\* h.includes(k): k occurs in h as a contiguous, case-sensitive substring.
includes(h, k) ==
    \E i \in 1..(Len(h) - Len(k) + 1) : SubSeq(h, i, i + Len(k) - 1) = k

----------------------------------------------------------------------------
(* The DOM: a page is the sequence of its tables in document order, a table
   the sequence of its tr rows, a row the sequence of its cells, a cell a
   tag (th or td) and its text content. *)

Cell(tag, text) == [tag |-> tag, text |-> text]

\* row.querySelectorAll(selector) for a selector that lists cell tags.
querySelectorAll(row, tags) == SelectSeq(row, LAMBDA c : c.tag \in tags)

\* cellTexts without the trim().
cellTexts_untrimmed(cells) == [i \in 1..Len(cells) |-> cells[i].text]

\* Array.from(cells).map(cell => cell.textContent.trim())
cellTexts(cells) == [i \in 1..Len(cells) |-> trim(cells[i].text)]

\* The header test of the weather.gov extractor: Date or Time.
WeatherGovKeywords == {"Date", "Time"}

\* The header test of the MT Avalanche extractor: Date, Hour or Wind.
MtAvalancheKeywords == {"Date", "Hour", "Wind"}

\* headerText.some(h => h.includes(k1) || h.includes(k2) ...)
someIncludes(headerText, keywords) ==
    \E i \in 1..Len(headerText) : \E k \in keywords : includes(headerText[i], k)

\* The inner loop over rows[i], i >= 1 (0-based): push the td texts of every
\* row that has at least one td.
RECURSIVE dataRows(_, _)
dataRows(rows, i) ==
    IF i > Len(rows) THEN <<>>
    ELSE LET cells == querySelectorAll(rows[i], {"td"})
         IN  (IF Len(cells) > 0 THEN <<cellTexts(cells)>> ELSE <<>>)
             \o dataRows(rows, i + 1)

\* scanTables without the break: every matching table overwrites the headers
\* and pushes its rows.
RECURSIVE scanTables_noBreak(_, _, _)
scanTables_noBreak(tables, keywords, i) ==
    IF i > Len(tables) THEN [headers |-> <<>>, rows |-> <<>>]
    ELSE LET rows == tables[i]
             rest == scanTables_noBreak(tables, keywords, i + 1)
         IN  IF Len(rows) = 0 THEN rest
             ELSE LET headerCells == querySelectorAll(rows[1], {"th", "td"})
                      headerText  == cellTexts(headerCells)
                  IN  IF Len(headerCells) > 0 /\ someIncludes(headerText, keywords)
                      THEN [headers |-> IF rest.headers = <<>> THEN headerText
                                        ELSE rest.headers,
                            rows    |-> dataRows(rows, 2) \o rest.rows]
                      ELSE rest

\* The outer loop over the tables from table i on; stops at the first match.
RECURSIVE scanTables(_, _, _)
scanTables(tables, keywords, i) ==
    IF i > Len(tables) THEN [headers |-> <<>>, rows |-> <<>>]
    ELSE LET rows == tables[i]
         IN  IF Len(rows) = 0 THEN scanTables(tables, keywords, i + 1)
             ELSE LET headerCells == querySelectorAll(rows[1], {"th", "td"})
                      headerText  == cellTexts(headerCells)
                  IN  IF Len(headerCells) > 0 /\ someIncludes(headerText, keywords)
                      THEN [headers |-> headerText, rows |-> dataRows(rows, 2)]
                      ELSE scanTables(tables, keywords, i + 1)

\* The function evaluated in the page by fetch_station_data.
evaluate_weather_gov(tables) == scanTables(tables, WeatherGovKeywords, 1)

\* The function evaluated in the page by fetch_mtavalanche_data.
evaluate_mtavalanche(tables) == scanTables(tables, MtAvalancheKeywords, 1)

----------------------------------------------------------------------------
(* Configuration *)

\* STATIONS, in its iteration order.
StationIds == <<"YCTIM", "YCAND", "YCAMS", "YCBAS", "YCGBR">>

STATIONS ==
    [site_id \in {StationIds[i] : i \in 1..Len(StationIds)} |->
        CASE site_id = "YCTIM" -> "Timberline"
          [] site_id = "YCAND" -> "Andesite"
          [] site_id = "YCAMS" -> "American Spirit"
          [] site_id = "YCBAS" -> "Base"
          [] site_id = "YCGBR" -> "Great Bear"]

MTAVALANCHE_URLS ==
    [site_id \in DOMAIN STATIONS |->
        "https://www.mtavalanche.com/weather/" \o
        (CASE site_id = "YCTIM" -> "yellowstoneclub/timber"
           [] site_id = "YCAND" -> "yellowstoneclub/andesite"
           [] site_id = "YCAMS" -> "stations/american-spirit-station"
           [] site_id = "YCBAS" -> "stations/yellowstone-club-base"
           [] site_id = "YCGBR" -> "stations/great-bear")]

HOURS == 168

\* The url of fetch_station_data.
WeatherGovUrl(site_id) ==
    "https://www.weather.gov/wrh/timeseries?site=" \o site_id \o "&hours=" \o
    ToString(HOURS) \o "&units=english&chart=on&headers=on&obs=tabular" \o
    "&hourly=false&pview=full&font=12&plot="

\* STATIONS.get(site_id, site_id)
StationName(site_id) ==
    IF site_id \in DOMAIN STATIONS THEN STATIONS[site_id] ELSE site_id

\* datetime.utcnow().isoformat(): the clock is not modelled.
utcnow == "utcnow"

----------------------------------------------------------------------------
(* Station records *)

\* The record fetch_station_data returns after a successful evaluate.
weather_gov_record(site_id, c) ==
    [station_id   |-> site_id,
     station_name |-> StationName(site_id),
     timestamp    |-> utcnow,
     data         |-> c,
     url          |-> WeatherGovUrl(site_id)]

\* The record fetch_station_data returns from its except clause.
weather_gov_error(site_id, e) ==
    [station_id   |-> site_id,
     station_name |-> StationName(site_id),
     timestamp    |-> utcnow,
     error        |-> e,
     url          |-> WeatherGovUrl(site_id)]

\* The record fetch_mtavalanche_data returns after a successful evaluate.
mtavalanche_record(site_id, c) ==
    [station_id   |-> site_id,
     station_name |-> StationName(site_id),
     timestamp    |-> utcnow,
     data         |-> c,
     url          |-> MTAVALANCHE_URLS[site_id],
     source       |-> "mtavalanche"]

\* An error record like the one of fetch_station_data.
mtavalanche_error_record(site_id, e) ==
    [station_id   |-> site_id,
     station_name |-> StationName(site_id),
     timestamp    |-> utcnow,
     error        |-> e,
     url          |-> MTAVALANCHE_URLS[site_id]]

\* What fetch_mtavalanche_data returns from its except clause.
mtavalanche_error(site_id, e) == None

\* record['data']['rows']
dataRowsOf(record) ==
    LET data == subscript(record, "data")
    IN  IF IsRaise(data) THEN data ELSE subscript(data.value, "rows")

\* mergedRecord with the weather.gov rows put first.
mergedRecord_primaryFirst(w, m) ==
    [k \in DOMAIN w \cup {"data", "sources", "mtavalanche_url"} |->
        CASE k = "data" ->
                [headers |-> w.data.headers,
                 rows    |-> w.data.rows \o m.data.rows]
          [] k = "sources" -> <<"mtavalanche", "weather.gov">>
          [] k = "mtavalanche_url" -> m.url
          [] OTHER -> w[k]]

\* weather_gov_data.copy() with data replaced and the two fields added.
mergedRecord(w, m) ==
    [k \in DOMAIN w \cup {"data", "sources", "mtavalanche_url"} |->
        CASE k = "data" ->
                [headers |-> w.data.headers,
                 rows    |-> m.data.rows \o w.data.rows]
          [] k = "sources" -> <<"mtavalanche", "weather.gov">>
          [] k = "mtavalanche_url" -> m.url
          [] OTHER -> w[k]]

\* merge_station_data without the test for an error field.
merge_ignoring_error(w, m) ==
    IF ~Truthy(m) THEN w
    ELSE LET wrows == dataRowsOf(w)
         IN  IF IsRaise(wrows) THEN wrows
             ELSE IF wrows.value = <<>> THEN w
             ELSE LET mrows == dataRowsOf(m)
                  IN  IF IsRaise(mrows) THEN mrows
                      ELSE IF mrows.value = <<>> THEN w
                      ELSE mergedRecord(w, m)

\* merge_station_data without the test for an empty secondary.
merge_ignoring_empty_secondary(w, m) ==
    IF ~Truthy(m) \/ "error" \in DOMAIN w THEN w
    ELSE LET wrows == dataRowsOf(w)
         IN  IF IsRaise(wrows) THEN wrows
             ELSE IF wrows.value = <<>> THEN w
             ELSE LET mrows == dataRowsOf(m)
                  IN  IF IsRaise(mrows) THEN mrows
                      ELSE mergedRecord(w, m)

\* merge_station_data without the test for an absent secondary.
merge_ignoring_absence(w, m) ==
    IF "error" \in DOMAIN w THEN w
    ELSE LET wrows == dataRowsOf(w)
         IN  IF IsRaise(wrows) THEN wrows
             ELSE IF wrows.value = <<>> THEN w
             ELSE LET mrows == dataRowsOf(m)
                  IN  IF IsRaise(mrows) THEN mrows
                      ELSE IF mrows.value = <<>> THEN w
                      ELSE mergedRecord(w, m)

\* merge_station_data: the record returned, or the exception raised.
merge_station_data(w, m) ==
    IF ~Truthy(m) \/ "error" \in DOMAIN w THEN w
    ELSE LET wrows == dataRowsOf(w)
         IN  IF IsRaise(wrows) THEN wrows
             ELSE IF wrows.value = <<>> THEN w
             ELSE LET mrows == dataRowsOf(m)
                  IN  IF IsRaise(mrows) THEN mrows
                      ELSE IF mrows.value = <<>> THEN w
                      ELSE mergedRecord(w, m)

----------------------------------------------------------------------------
(* The pages the two sites serve *)

th(text) == Cell("th", text)
td(text) == Cell("td", text)

\* The weather.gov timeseries table.
TimeseriesHeader == <<th(" Date "), th("Temp")>>
TimeseriesRow    == <<td("2024-01-01"), td(" 20F\n")>>

\* The MT Avalanche observation table.
ObservationHeader == <<th("Hour"), th("Wind")>>
ObservationRow    == <<td("00:00"), td("5mph")>>

\* DOMs of the weather.gov page: nothing rendered, the table with a data row.
WeatherGovPages ==
    { <<>>,
      << <<TimeseriesHeader, TimeseriesRow>> >> }

\* DOMs of the MT Avalanche page: nothing rendered, the table with a data row.
MtAvalanchePages ==
    { <<>>,
      << <<ObservationHeader, ObservationRow>> >> }

\* str(e) of an exception playwright raises.
PlaywrightError == "playwright error"

----------------------------------------------------------------------------
(* main() *)

NoEntries == <<>>

\* d[key] = value on a dict, open(name, 'w') + json.dump on the directory.
Put(d, key, value) ==
    [k \in DOMAIN d \cup {key} |-> IF k = key THEN value ELSE d[k]]

site_id == StationIds[idx]

StationFile(s) == s \o ".json"
CombinedFile == "all_stations.json"
MetadataFile == "metadata.json"

Init ==
    /\ pc = "wg_goto"
    /\ idx = 1
    /\ page = <<>>
    /\ content = None
    /\ weather_gov_data = None
    /\ mtavalanche_data = None
    /\ station_data = None
    /\ all_data = NoEntries
    /\ files = NoEntries
    /\ warned = FALSE
    /\ fetched = NoEntries

\* page.wait_for_selector('table', timeout=45000) inside its own try/except:
\* a table is there, or one appears in time, or the wait times out and only a
\* WARNING is printed.
WaitForSelector(pages) ==
    IF Len(page) > 0
    THEN UNCHANGED <<page, warned>>
    ELSE \/ \E d \in pages : Len(d) > 0 /\ page' = d /\ UNCHANGED warned
         \/ warned' = TRUE /\ UNCHANGED page

\* time.sleep(2): a page that has no table yet may still render.
Sleep(pages) ==
    IF Len(page) > 0 THEN UNCHANGED page ELSE page' \in pages

\* fetch_station_data without its except clause: the exception leaves main().
WeatherGovExcept_uncaught(e) ==
    /\ weather_gov_data' = Raise(e)
    /\ pc' = "aborted"

\* The except clause of fetch_station_data: the error record is returned.
WeatherGovExcept(e) ==
    /\ weather_gov_data' = weather_gov_error(site_id, e)
    /\ pc' = "mt_goto"

\* The except clause of fetch_mtavalanche_data: None is returned.
MtAvalancheExcept(e) ==
    /\ mtavalanche_data' = mtavalanche_error(site_id, e)
    /\ pc' = "merge"

\* fetch_station_data, page.goto: the navigation succeeds or raises.
WeatherGovGoto ==
    /\ pc = "wg_goto"
    /\ warned' = FALSE
    /\ content' = None
    /\ \/ /\ page' \in WeatherGovPages
          /\ pc' = "wg_wait"
          /\ UNCHANGED weather_gov_data
       \/ /\ WeatherGovExcept(PlaywrightError)
          /\ UNCHANGED page
    /\ UNCHANGED <<idx, mtavalanche_data, station_data, all_data, files, fetched>>

\* The wait of fetch_station_data without its own try/except: the timeout
\* reaches the except clause of the function.
WeatherGovWait_timeoutRaises ==
    /\ pc = "wg_wait"
    /\ IF Len(page) > 0
       THEN pc' = "wg_evaluate" /\ UNCHANGED <<page, warned, weather_gov_data>>
       ELSE \/ /\ \E d \in WeatherGovPages : Len(d) > 0 /\ page' = d
               /\ pc' = "wg_evaluate"
               /\ UNCHANGED <<warned, weather_gov_data>>
            \/ /\ warned' = TRUE
               /\ WeatherGovExcept(PlaywrightError)
               /\ UNCHANGED page
    /\ UNCHANGED <<idx, content, mtavalanche_data, station_data, all_data,
                   files, fetched>>

WeatherGovWait ==
    /\ pc = "wg_wait"
    /\ WaitForSelector(WeatherGovPages)
    /\ pc' = "wg_evaluate"
    /\ UNCHANGED <<idx, content, weather_gov_data, mtavalanche_data,
                   station_data, all_data, files, fetched>>

\* fetch_station_data from the sleep to its return: page.evaluate returns the
\* table or raises.
WeatherGovEvaluate ==
    /\ pc = "wg_evaluate"
    /\ Sleep(WeatherGovPages)
    /\ \/ /\ content' = evaluate_weather_gov(page')
          /\ weather_gov_data' = weather_gov_record(site_id, content')
          /\ pc' = "mt_goto"
       \/ /\ content' = Raise(PlaywrightError)
          /\ WeatherGovExcept(PlaywrightError)
    /\ UNCHANGED <<idx, mtavalanche_data, station_data, all_data, files,
                   warned, fetched>>

\* fetch_mtavalanche_data up to page.goto.
MtAvalancheGoto ==
    /\ pc = "mt_goto"
    /\ warned' = FALSE
    /\ content' = None
    /\ IF site_id \notin DOMAIN MTAVALANCHE_URLS
       THEN /\ mtavalanche_data' = None
            /\ pc' = "merge"
            /\ UNCHANGED page
       ELSE \/ /\ page' \in MtAvalanchePages
               /\ pc' = "mt_wait"
               /\ UNCHANGED mtavalanche_data
            \/ /\ MtAvalancheExcept(PlaywrightError)
               /\ UNCHANGED page
    /\ UNCHANGED <<idx, weather_gov_data, station_data, all_data, files, fetched>>

MtAvalancheWait ==
    /\ pc = "mt_wait"
    /\ WaitForSelector(MtAvalanchePages)
    /\ pc' = "mt_evaluate"
    /\ UNCHANGED <<idx, content, weather_gov_data, mtavalanche_data,
                   station_data, all_data, files, fetched>>

MtAvalancheEvaluate ==
    /\ pc = "mt_evaluate"
    /\ Sleep(MtAvalanchePages)
    /\ \/ /\ content' = evaluate_mtavalanche(page')
          /\ mtavalanche_data' = mtavalanche_record(site_id, content')
          /\ pc' = "merge"
       \/ /\ content' = Raise(PlaywrightError)
          /\ MtAvalancheExcept(PlaywrightError)
    /\ UNCHANGED <<idx, weather_gov_data, station_data, all_data, files,
                   warned, fetched>>

\* The rest of the loop body: merge, all_data[site_id] = ..., the station file;
\* an exception of merge_station_data is caught nowhere and ends the run.
MergeAndSave ==
    /\ pc = "merge"
    /\ LET merged == merge_station_data(weather_gov_data, mtavalanche_data)
       IN  IF IsRaise(merged)
           THEN /\ pc' = "aborted"
                /\ UNCHANGED <<idx, station_data, all_data, files, fetched>>
           ELSE /\ station_data' = merged
                /\ all_data' = Put(all_data, site_id, merged)
                /\ files' = Put(files, StationFile(site_id), merged)
                /\ fetched' = Put(fetched, site_id,
                                  [weather_gov |-> weather_gov_data,
                                   mtavalanche |-> mtavalanche_data])
                /\ IF idx < Len(StationIds)
                   THEN idx' = idx + 1 /\ pc' = "wg_goto"
                   ELSE idx' = idx /\ pc' = "save_combined"
    /\ UNCHANGED <<page, content, weather_gov_data, mtavalanche_data, warned>>

\* SaveCombined dumping the last station's record in place of all_data.
SaveCombined_lastStation ==
    /\ pc = "save_combined"
    /\ files' = Put(files, CombinedFile, station_data)
    /\ pc' = "save_metadata"
    /\ UNCHANGED <<idx, page, content, weather_gov_data, mtavalanche_data,
                   station_data, all_data, warned, fetched>>

\* json.dump(all_data) to all_stations.json
SaveCombined ==
    /\ pc = "save_combined"
    /\ files' = Put(files, CombinedFile, all_data)
    /\ pc' = "save_metadata"
    /\ UNCHANGED <<idx, page, content, weather_gov_data, mtavalanche_data,
                   station_data, all_data, warned, fetched>>

metadata ==
    [last_updated  |-> utcnow,
     stations      |-> StationIds,
     hours_of_data |-> HOURS]

SaveMetadata ==
    /\ pc = "save_metadata"
    /\ files' = Put(files, MetadataFile, metadata)
    /\ pc' = "done"
    /\ UNCHANGED <<idx, page, content, weather_gov_data, mtavalanche_data,
                   station_data, all_data, warned, fetched>>

Next ==
    \/ WeatherGovGoto
    \/ WeatherGovWait
    \/ WeatherGovEvaluate
    \/ MtAvalancheGoto
    \/ MtAvalancheWait
    \/ MtAvalancheEvaluate
    \/ MergeAndSave
    \/ SaveCombined
    \/ SaveMetadata

Spec == Init /\ [][Next]_vars

----------------------------------------------------------------------------
(* The extractors alone, on every page of a bounded family of DOMs *)

MaxTables == 2
MaxRowsTotal == 3

\* Rows a page is built from: head rows that match both extractors, only the
\* weather.gov one, only the MT Avalanche one, and rows that match neither
\* (a th and a td, a lone th in lower case, no cell at all).
FixtureRows ==
    { TimeseriesHeader,
      <<td("Time")>>,
      <<td("Wind Speed\n"), td("Hour")>>,
      <<th("Obs"), td(" 5 ")>>,
      <<th("date")>>,
      <<>> }

\* The tables of exactly n rows.
TablesOf(n) == [1..n -> FixtureRows]

\* The pages of at most t tables and at most r rows in all.
RECURSIVE PagesUpTo(_, _)
PagesUpTo(t, r) ==
    {<<>>} \cup
    (IF t = 0 THEN {}
     ELSE UNION { { <<table>> \o rest : table \in TablesOf(n),
                                        rest \in PagesUpTo(t - 1, r - n) }
                  : n \in 0..r })

InitExtract ==
    /\ pc = "evaluate"
    /\ page \in PagesUpTo(MaxTables, MaxRowsTotal)
    /\ content = None
    /\ idx = 1
    /\ weather_gov_data = None
    /\ mtavalanche_data = None
    /\ station_data = None
    /\ all_data = NoEntries
    /\ files = NoEntries
    /\ warned = FALSE
    /\ fetched = NoEntries

\* page.evaluate of fetch_station_data on the page as it stands.
EvaluateWeatherGov ==
    /\ pc = "evaluate"
    /\ content' = evaluate_weather_gov(page)
    /\ pc' = "weather_gov_evaluated"
    /\ UNCHANGED <<idx, page, weather_gov_data, mtavalanche_data, station_data,
                   all_data, files, warned, fetched>>

\* page.evaluate of fetch_mtavalanche_data on the page as it stands.
EvaluateMtAvalanche ==
    /\ pc = "evaluate"
    /\ content' = evaluate_mtavalanche(page)
    /\ pc' = "mtavalanche_evaluated"
    /\ UNCHANGED <<idx, page, weather_gov_data, mtavalanche_data, station_data,
                   all_data, files, warned, fetched>>

NextExtract ==
    \/ EvaluateWeatherGov
    \/ EvaluateMtAvalanche

SpecExtract == InitExtract /\ [][NextExtract]_vars

----------------------------------------------------------------------------
(* merge_station_data alone, on the records of the data model *)

MaxMergeRows == 2

\* The sequences over S of length at most n.
SeqsUpTo(S, n) == UNION { [1..k -> S] : k \in 0..n }

WeatherGovRows == { <<"2024-01-01", "20F">>, <<"2024-01-02", "21F">> }

\* One row of its own and one row that weather.gov reports too.
MtAvalancheRows == { <<"00:00", "5mph">>, <<"2024-01-01", "20F">> }

RawText == PyStr("<html>")

\* Primary records: a table of 0..MaxMergeRows rows, the empty result of an
\* extraction miss, raw text, the error record, an error record with data.
PrimaryInputs ==
    { weather_gov_record("YCTIM", [headers |-> <<"Date", "Temp">>, rows |-> r]) :
        r \in SeqsUpTo(WeatherGovRows, MaxMergeRows) }
    \cup
    { weather_gov_record("YCTIM", [headers |-> <<>>, rows |-> <<>>]),
      weather_gov_record("YCTIM", RawText),
      weather_gov_error("YCTIM", PlaywrightError),
      Put(weather_gov_record("YCTIM",
              [headers |-> <<"Date", "Temp">>,
               rows    |-> << <<"2024-01-01", "20F">> >>]),
          "error", PlaywrightError) }

\* Secondary inputs: None, a table of 0..MaxMergeRows rows, raw text.
SecondaryInputs ==
    { None, mtavalanche_record("YCTIM", RawText) }
    \cup
    { mtavalanche_record("YCTIM", [headers |-> <<"Hour", "Wind">>, rows |-> r]) :
        r \in SeqsUpTo(MtAvalancheRows, MaxMergeRows) }

InitMerge ==
    /\ pc = "merge_call"
    /\ weather_gov_data \in PrimaryInputs
    /\ mtavalanche_data \in SecondaryInputs
    /\ station_data = None
    /\ idx = 1
    /\ page = <<>>
    /\ content = None
    /\ all_data = NoEntries
    /\ files = NoEntries
    /\ warned = FALSE
    /\ fetched = NoEntries

\* station_data = merge_station_data(weather_gov_data, mtavalanche_data)
MergeCall ==
    /\ pc = "merge_call"
    /\ station_data' = merge_station_data(weather_gov_data, mtavalanche_data)
    /\ pc' = IF IsRaise(station_data') THEN "raised" ELSE "returned"
    /\ UNCHANGED <<idx, page, content, weather_gov_data, mtavalanche_data,
                   all_data, files, warned, fetched>>

NextMerge == MergeCall

SpecMerge == InitMerge /\ [][NextMerge]_vars

----------------------------------------------------------------------------
(* Vocabulary of the properties *)

HasError(r) == "error" \in DOMAIN r

IsTable(d) == DOMAIN d = {"headers", "rows"}

\* r is a record whose data field is a table.
HasTable(r) == "data" \in DOMAIN r /\ IsTable(r.data)

\* r is a record whose data field is raw text.
HasRawText(r) == "data" \in DOMAIN r /\ IsStr(r.data)

HasField(r, f) == f \in DOMAIN r

MergeCalled == pc \in {"returned", "raised"}

----------------------------------------------------------------------------
(* Properties of merge_station_data, under SpecMerge *)

\* C1: when the primary has no error, the secondary is present and both have
\* rows, the merge returns a record with the primary's headers, with the
\* secondary's rows followed by the primary's rows (each list in its order,
\* nothing dropped), with sources = [mtavalanche, weather.gov] and with the
\* secondary's url as mtavalanche_url.
C1_MergeSecondaryRowsFirst ==
    LET w == weather_gov_data
        m == mtavalanche_data
        out == station_data
    IN  (/\ MergeCalled
         /\ ~HasError(w) /\ HasTable(w) /\ w.data.rows # <<>>
         /\ HasTable(m) /\ m.data.rows # <<>>)
        => /\ pc = "returned"
           /\ HasTable(out)
           /\ out.data.headers = w.data.headers
           /\ Len(out.data.rows) = Len(m.data.rows) + Len(w.data.rows)
           /\ \A i \in 1..Len(m.data.rows) : out.data.rows[i] = m.data.rows[i]
           /\ \A i \in 1..Len(w.data.rows) :
                 out.data.rows[Len(m.data.rows) + i] = w.data.rows[i]
           /\ HasField(out, "sources")
           /\ out.sources = <<"mtavalanche", "weather.gov">>
           /\ HasField(out, "mtavalanche_url")
           /\ out.mtavalanche_url = m.url

\* A merge of two rows onto two rows, where the secondary repeats a row of the
\* primary and the two header lists differ.
C1_Witness ==
    /\ pc = "returned"
    /\ ~HasError(weather_gov_data) /\ HasTable(weather_gov_data)
    /\ HasTable(mtavalanche_data)
    /\ Len(weather_gov_data.data.rows) = 2
    /\ Len(mtavalanche_data.data.rows) = 2
    /\ mtavalanche_data.data.rows[2] = weather_gov_data.data.rows[1]
    /\ mtavalanche_data.data.headers # weather_gov_data.data.headers
    /\ Len(station_data.data.rows) = 4

C9_NeverRaises == pc # "raised"

\* The inputs on which the merge reads a data field that is raw text: the
\* secondary is present, the primary has no error, and the primary's data is
\* raw text or, the primary having rows, the secondary's data is.
ReadsRawText(w, m) ==
    /\ m # None
    /\ ~HasError(w)
    /\ \/ HasRawText(w)
       \/ HasTable(w) /\ w.data.rows # <<>> /\ HasRawText(m)

\* C9 amended: the merge raises exactly when it reads a raw-text data field,
\* and then a TypeError; on every other input (an error-bearing or
\* table-bearing primary, an absent or table-bearing secondary among them) it
\* returns a record.
C9_RaisesOnlyOnRawText ==
    MergeCalled =>
        /\ pc = "raised" <=> ReadsRawText(weather_gov_data, mtavalanche_data)
        /\ pc = "raised" => station_data = Raise("TypeError")
        /\ pc = "returned" => HasField(station_data, "station_id")

\* The merge returned on a primary with rows and a secondary with none.
C9_Witness ==
    /\ pc = "returned"
    /\ HasTable(weather_gov_data) /\ weather_gov_data.data.rows # <<>>
    /\ HasTable(mtavalanche_data) /\ mtavalanche_data.data.rows = <<>>

----------------------------------------------------------------------------
(* Properties of the extractors, under SpecExtract *)

\* The keywords of the extractor that ran.
KeywordsUsed ==
    IF pc = "weather_gov_evaluated" THEN {"Date", "Time"}
    ELSE {"Date", "Hour", "Wind"}

Evaluated == pc \in {"weather_gov_evaluated", "mtavalanche_evaluated"}

\* k occurs in text.
Contains(text, k) ==
    \E i \in 1..Len(text) : \E j \in i..Len(text) : SubSeq(text, i, j) = k

\* t is text without its leading and trailing white space.
IsTrimOf(t, text) ==
    \E i \in 1..(Len(text) + 1) : \E j \in (i - 1)..Len(text) :
        /\ t = SubSeq(text, i, j)
        /\ \A k \in 1..(i - 1) : SubSeq(text, k, k) \in {" ", "\t", "\n"}
        /\ \A k \in (j + 1)..Len(text) : SubSeq(text, k, k) \in {" ", "\t", "\n"}
        /\ j >= i => /\ SubSeq(text, i, i) \notin {" ", "\t", "\n"}
                     /\ SubSeq(text, j, j) \notin {" ", "\t", "\n"}

\* The first row of the table has a cell whose text contains a keyword of K.
HeadRowHas(table, K) ==
    /\ Len(table) >= 1
    /\ \E c \in 1..Len(table[1]) : \E k \in K : Contains(table[1][c].text, k)

\* The index of the first table of the page whose head row has a keyword of
\* K, 0 when there is none.
FirstMatch(K) ==
    IF \E t \in 1..Len(page) : HeadRowHas(page[t], K)
    THEN CHOOSE t \in 1..Len(page) :
            /\ HeadRowHas(page[t], K)
            /\ \A u \in 1..(t - 1) : ~HeadRowHas(page[u], K)
    ELSE 0

\* texts are the trimmed texts of the cells at the positions pos of the row,
\* in the order of the row.
TextsOfCells(texts, row, pos) ==
    /\ Len(texts) = Cardinality(pos)
    /\ \A c \in pos :
          IsTrimOf(texts[Cardinality({d \in pos : d <= c})], row[c].text)

TdCells(row) == {c \in 1..Len(row) : row[c].tag = "td"}

\* The rows after the first that have a td.
TdRows(table) == {r \in 2..Len(table) : TdCells(table[r]) # {}}

\* C7: each extractor returns the data of the first table whose first row has
\* a cell containing a keyword of its source: the headers are the trimmed
\* texts of all cells of that row, the rows are the trimmed td texts of every
\* later row of that table that has a td, in order; nothing else contributes;
\* without such a table the result is exactly {headers: [], rows: []}.
C7_FirstMatchingTable ==
    Evaluated =>
        LET t == FirstMatch(KeywordsUsed)
        IN  IF t = 0
            THEN content = [headers |-> <<>>, rows |-> <<>>]
            ELSE /\ IsTable(content)
                 /\ TextsOfCells(content.headers, page[t][1], 1..Len(page[t][1]))
                 /\ Len(content.rows) = Cardinality(TdRows(page[t]))
                 /\ \A r \in TdRows(page[t]) :
                       TextsOfCells(
                           content.rows[Cardinality({q \in TdRows(page[t]) : q <= r})],
                           page[t][r], TdCells(page[t][r]))

\* The weather.gov extractor passed a table without rows, took the second
\* table and skipped a row without td between its head row and a data row.
C7_Witness ==
    /\ pc = "weather_gov_evaluated"
    /\ Len(page) = 2
    /\ Len(page[1]) = 0
    /\ FirstMatch({"Date", "Time"}) = 2
    /\ Len(page[2]) = 3
    /\ TdRows(page[2]) = {3}
    /\ content.headers = <<"Date", "Temp">>
    /\ content.rows = << <<"5">> >>

\* C8 as stated: whenever some table of the page has a head row with a cell
\* containing "Date", the returned headers are the trimmed texts of that
\* table's head row.
C8_HeadersOfEveryDateTable ==
    Evaluated =>
        \A t \in 1..Len(page) :
            HeadRowHas(page[t], {"Date"}) =>
                TextsOfCells(content.headers, page[t][1], 1..Len(page[t][1]))

\* C8 amended: whenever some table of the page has a head row with a cell
\* containing "Date", the returned headers are the trimmed texts of the head
\* row of the first table whose head row has a cell containing a keyword of
\* the source; they are those of a "Date" table when no table before it has
\* such a cell.
C8_HeadersOfFirstKeywordTable ==
    (Evaluated /\ \E t \in 1..Len(page) : HeadRowHas(page[t], {"Date"})) =>
        LET f == FirstMatch(KeywordsUsed)
        IN  /\ f > 0
            /\ TextsOfCells(content.headers, page[f][1], 1..Len(page[f][1]))
            /\ \A t \in 1..Len(page) :
                  (/\ HeadRowHas(page[t], {"Date"})
                   /\ \A u \in 1..(t - 1) : ~HeadRowHas(page[u], KeywordsUsed))
                  => TextsOfCells(content.headers, page[t][1], 1..Len(page[t][1]))

\* The MT Avalanche extractor returned the headers of a "Date" table that
\* follows a table matching the other source only.
C8_Witness ==
    /\ pc = "mtavalanche_evaluated"
    /\ Len(page) = 2
    /\ HeadRowHas(page[1], {"Time"})
    /\ HeadRowHas(page[2], {"Date"})
    /\ content.headers = <<"Date", "Temp">>

----------------------------------------------------------------------------
(* Properties of the station loop, under Spec *)

AllStations == {StationIds[i] : i \in 1..Len(StationIds)}

\* The stations whose iteration has ended.
Persisted == DOMAIN fetched

\* The record in the station file of s.
StationFileOf(s) == files[StationFile(s)]

\* A fetch result with a table of at least one row.
Succeeded(r) == ~HasError(r) /\ HasTable(r) /\ r.data.rows # <<>>

\* The fetch that just ended raised: page.evaluate was not reached or raised.
FetchRaised == content = None \/ IsRaise(content)

LoopEnded == pc \in {"save_combined", "save_metadata", "done"}

\* C3: a station whose primary fetch failed is persisted with error and
\* without data; the run never aborts and never stops before its end; the
\* stations are taken in registry order whatever happened to the earlier
\* ones, each gets its own file, and the aggregate and then the metadata file
\* are written once all station files are.
C3_PrimaryFailureIsContained ==
    /\ pc # "aborted"
    /\ pc # "done" => ENABLED Next
    /\ Persisted = {StationIds[i] : i \in 1..(IF LoopEnded THEN idx ELSE idx - 1)}
    /\ \A s \in Persisted :
          /\ StationFile(s) \in DOMAIN files
          /\ HasError(fetched[s].weather_gov) =>
                /\ HasError(StationFileOf(s))
                /\ ~HasField(StationFileOf(s), "data")
    /\ CombinedFile \in DOMAIN files => Persisted = AllStations
    /\ MetadataFile \in DOMAIN files => CombinedFile \in DOMAIN files
    /\ pc = "done" => MetadataFile \in DOMAIN files

\* The run ended with every file written although the primary fetch of the
\* first and of the third station failed and the others returned rows.
C3_Witness ==
    /\ pc = "done"
    /\ HasError(fetched["YCTIM"].weather_gov)
    /\ Succeeded(StationFileOf("YCAND"))
    /\ HasError(StationFileOf("YCAMS"))
    /\ Succeeded(StationFileOf("YCGBR"))
    /\ MetadataFile \in DOMAIN files

\* C4: a failed secondary fetch yields None and never ends the run; the
\* station is then persisted with an error only if its primary fetch failed,
\* and when the primary fetch succeeded the persisted record is the primary
\* record itself: with data, without error, sources or mtavalanche_url.
C4_SecondaryFailureIsSilent ==
    /\ pc # "aborted"
    /\ (pc = "merge" /\ FetchRaised) => mtavalanche_data = None
    /\ \A s \in Persisted :
          fetched[s].mtavalanche = None =>
             /\ StationFile(s) \in DOMAIN files
             /\ HasError(StationFileOf(s)) <=> HasError(fetched[s].weather_gov)
             /\ ~HasError(fetched[s].weather_gov) =>
                   /\ StationFileOf(s) = fetched[s].weather_gov
                   /\ HasField(StationFileOf(s), "data")
                   /\ ~HasField(StationFileOf(s), "sources")
                   /\ ~HasField(StationFileOf(s), "mtavalanche_url")

\* The secondary fetch of a station raised after its primary fetch had
\* returned rows, and the station was persisted.
C4_Witness ==
    /\ pc = "wg_goto"
    /\ idx = 3
    /\ IsRaise(content)
    /\ mtavalanche_data = None
    /\ fetched["YCAND"].mtavalanche = None
    /\ Succeeded(fetched["YCAND"].weather_gov)
    /\ StationFileOf("YCAND") = fetched["YCAND"].weather_gov

\* C5: once the aggregate file is written its keys are exactly the station
\* identifiers of the registry and each value is the content of that
\* station's own file, whichever fetches failed.
C5_AggregateMatchesStationFiles ==
    pc \in {"save_metadata", "done"} =>
        /\ CombinedFile \in DOMAIN files
        /\ DOMAIN files[CombinedFile] = AllStations
        /\ \A s \in AllStations :
              /\ StationFile(s) \in DOMAIN files
              /\ files[CombinedFile][s] = StationFileOf(s)

\* A finished run with an errored, an unmerged and a merged station.
C5_Witness ==
    /\ pc = "done"
    /\ HasError(files[CombinedFile]["YCTIM"])
    /\ ~HasField(files[CombinedFile]["YCAND"], "sources")
    /\ Succeeded(files[CombinedFile]["YCAND"])
    /\ HasField(files[CombinedFile]["YCGBR"], "sources")

\* C6 as stated: after a render-wait timeout the fetch has failed without an
\* extraction: the primary result is an error record without data, the
\* secondary result is absent.
C6_WaitTimeoutFailsFetch ==
    /\ (pc = "mt_goto" /\ warned) =>
          /\ content = None
          /\ HasError(weather_gov_data)
          /\ ~HasField(weather_gov_data, "data")
    /\ (pc = "merge" /\ warned) =>
          /\ content = None
          /\ mtavalanche_data = None

\* C6 amended: a render-wait timeout only prints a warning; page.evaluate is
\* still called, and unless it raises, the primary fetch returns a record with
\* the extracted table as data and no error, the secondary fetch a record
\* with the extracted table as data; the table is the empty one when the page
\* still has no table.
C6_WaitTimeoutOnlyWarns ==
    /\ (pc = "mt_goto" /\ warned) =>
          /\ content # None
          /\ IsRaise(content) =>
                HasError(weather_gov_data) /\ ~HasField(weather_gov_data, "data")
          /\ ~IsRaise(content) =>
                /\ ~HasError(weather_gov_data)
                /\ HasTable(weather_gov_data)
                /\ weather_gov_data.data = content
                /\ Len(page) = 0 => content = [headers |-> <<>>, rows |-> <<>>]
    /\ (pc = "merge" /\ warned) =>
          /\ content # None
          /\ IsRaise(content) => mtavalanche_data = None
          /\ ~IsRaise(content) =>
                /\ mtavalanche_data # None
                /\ HasTable(mtavalanche_data)
                /\ mtavalanche_data.data = content
                /\ Len(page) = 0 => content = [headers |-> <<>>, rows |-> <<>>]

\* The primary wait timed out and the fetch returned the empty table.
C6_Witness ==
    /\ pc = "mt_goto"
    /\ warned
    /\ ~HasError(weather_gov_data)
    /\ weather_gov_data.data = [headers |-> <<>>, rows |-> <<>>]

\* The shape C10 asks of the persisted record r of station s.
ShapeOk(r, s) ==
    /\ HasError(r) # HasField(r, "data")
    /\ HasField(r, "sources") <=> HasField(r, "mtavalanche_url")
    /\ HasField(r, "sources") <=>
          Succeeded(fetched[s].weather_gov) /\ Succeeded(fetched[s].mtavalanche)
    /\ HasError(r) => ~HasField(r, "sources") /\ ~HasField(r, "mtavalanche_url")

\* C10: every persisted record, in a station file or in the aggregate, has
\* exactly one of error and data, and has sources and mtavalanche_url exactly
\* when both fetches of its station returned at least one row.
C10_RecordShape ==
    /\ \A s \in Persisted : ShapeOk(StationFileOf(s), s)
    /\ CombinedFile \in DOMAIN files =>
          \A s \in DOMAIN files[CombinedFile] : ShapeOk(files[CombinedFile][s], s)

\* The aggregate holds a merged record, an error record whose secondary fetch
\* had rows, and a record left unmerged because the secondary had no rows.
C10_Witness ==
    /\ CombinedFile \in DOMAIN files
    /\ HasField(files[CombinedFile]["YCTIM"], "sources")
    /\ HasError(files[CombinedFile]["YCAND"])
    /\ Succeeded(fetched["YCAND"].mtavalanche)
    /\ Succeeded(files[CombinedFile]["YCAMS"])
    /\ ~HasField(files[CombinedFile]["YCAMS"], "sources")
    /\ HasTable(fetched["YCAMS"].mtavalanche)

====
